---- MODULE Spec2Model ----
(***************************************************************************)
(* Financial-statement parser (AWS/app/main.py): the upload handler, the   *)
(* page/line scan of parse_pdf_to_year_buckets, match_canonical,           *)
(* rollup_payload and diagnostics.                                         *)
(*                                                                         *)
(* Text is modelled by what the code's regular expressions see in it.  A   *)
(* line is a record of the facts the code extracts from it: its stripped   *)
(* length, whether it holds a company marker, the first DATE_LONG_RE match *)
(* in it, its YEAR_RE tokens, the label before its first NUM_RE token and  *)
(* its NUM_RE tokens.  A document is a sequence of line names and page     *)
(* breaks.  Amounts are integers in thousandths of a currency unit.        *)
(***************************************************************************)
EXTENDS Integers, Sequences, FiniteSets, TLC

VARIABLES
    \* one invocation of upload_statement / parse_pdf_to_year_buckets
    doc, filename, today, pc, tmp_file, pages_text, company, period,
    doc_currency, years, raw, current_year_context, pi, li, writes,
    \* the statement store and what the handler returned
    store, next_id, results, uploads, prev,
    \* two concurrent invocations sharing the temporary file
    cdoc, cpc, cpages, cnum,
    \* match_canonical / rollup_payload applied to drawn inputs
    label, canon_out, r_in, payload_out, tie_up

pipeVars == <<doc, filename, today, pc, tmp_file, pages_text, company, period,
              doc_currency, years, raw, current_year_context, pi, li, writes>>
storeVars == <<store, next_id, results, uploads, prev>>
concVars == <<cdoc, cpc, cpages, cnum>>
funVars == <<label, canon_out, r_in, payload_out>>
vars == <<pipeVars, storeVars, concVars, funVars, tie_up>>

----------------------------------------------------------------------------
(* Bounds *)

\* items (lines and page breaks) of a document drawn for one parse
MaxItems == 4
\* upload_statement calls in one behaviour
MaxUploads == 2
\* times the calendar year advances in one behaviour
MaxTicks == 1
\* entries of a flat map handed to rollup_payload
MaxEntries == 3

----------------------------------------------------------------------------
(* Helpers *)

Max(S) == CHOOSE m \in S : \A n \in S : n <= m
Min(S) == CHOOSE m \in S : \A n \in S : m <= n
Range(s) == {s[i] : i \in 1..Len(s)}
Abs(n) == IF n < 0 THEN -n ELSE n
Last(s) == s[Len(s)]

\* d[k] = v on a Python dict
Put(d, k, v) == [x \in (DOMAIN d) \cup {k} |-> IF x = k THEN v ELSE d[x]]

\* sorted(S) for a set of integers
RECURSIVE Sorted(_)
Sorted(S) == IF S = {} THEN <<>> ELSE <<Min(S)>> \o Sorted(S \ {Min(S)})

RECURSIVE SeqsUpTo(_, _)
SeqsUpTo(S, n) ==
    IF n = 0 THEN {<<>>}
    ELSE LET shorter == SeqsUpTo(S, n - 1)
         IN shorter \cup {Append(s, e) : s \in {t \in shorter : Len(t) = n - 1}, e \in S}

NoDate == <<>>
NoCompany == ""

----------------------------------------------------------------------------
(* Taxonomy (AWS/app/taxonomy.json, loaded at import).  The file is         *)
(* configuration; this is a taxonomy of three keys, two with a regex and   *)
(* one with synonyms only, and the rollup groups.                          *)

CANON == <<
    [key |-> "cash", synonyms |-> <<"cash">>, regex |-> <<"^cash">>],
    [key |-> "loan_payable", synonyms |-> <<"loan payable">>, regex |-> <<"loan pay">>],
    [key |-> "capital_stock", synonyms |-> <<"capital stock", "share capital">>, regex |-> <<>>] >>

ROLLUPS == [
    current_assets |-> <<"cash", "accounts_receivable">>,
    singletons |-> <<"equipment_and_software">>,
    current_liabilities |-> <<"accounts_payable_and_accrued_liabilities">>,
    loan_payable |-> "loan_payable",
    shareholders_equity |-> <<"capital_stock", "retained_earnings_end_of_year">>,
    expenses |-> <<"amortization_of_tangible_assets">> ]

\* FUZZY_CHOICES: per key, its synonyms then its regex sources
RECURSIVE FuzzyFrom(_)
FuzzyFrom(i) ==
    IF i > Len(CANON) THEN <<>>
    ELSE CANON[i].synonyms \o CANON[i].regex \o FuzzyFrom(i + 1)
FUZZY_CHOICES == FuzzyFrom(1)

\* CANON_KEY_FOR.get(s): the last key listing s as a synonym, or "" (None)
CANON_KEY_FOR(s) ==
    LET owners == {i \in 1..Len(CANON) : s \in Range(CANON[i].synonyms)}
    IN IF owners = {} THEN "" ELSE CANON[Max(owners)].key

threshold == 84

----------------------------------------------------------------------------
(* match_canonical.  A label is what the matchers see of it: rx, the regex *)
(* sources re.search finds in it; best, the (choice, score) extractOne     *)
(* returns over FUZZY_CHOICES; subs, the change_map phrases it contains.   *)

RECURSIVE RegexPass(_, _)
RegexPass(lab, i) ==
    IF i > Len(CANON) THEN ""
    ELSE IF Range(CANON[i].regex) \cap lab.rx # {} THEN CANON[i].key
    ELSE RegexPass(lab, i + 1)

FuzzyPass(lab) ==
    IF FUZZY_CHOICES # <<>> /\ lab.best[2] >= threshold
    THEN CANON_KEY_FOR(lab.best[1])
    ELSE ""

match_canonical_fuzzy_first(lab) ==
    IF FuzzyPass(lab) # "" THEN FuzzyPass(lab) ELSE RegexPass(lab, 1)

match_canonical(lab) ==
    IF RegexPass(lab, 1) # "" THEN RegexPass(lab, 1) ELSE FuzzyPass(lab)

change_map == <<
    <<"accounts receivable", "change_accounts_receivable">>,
    <<"investment tax credits receivable", "change_investment_tax_credits_receivable">>,
    <<"inventories", "change_inventories">>,
    <<"prepaid expenses", "change_prepaid_expenses">>,
    <<"accounts payable and accrued liabilities", "change_accounts_payable_and_accrued_liabilities">>,
    <<"government remittances payable", "change_government_remittances_payable">>,
    <<"deferred revenue", "change_deferred_revenue">> >>

RECURSIVE ChangePass(_, _)
ChangePass(lab, i) ==
    IF i > Len(change_map) THEN ""
    ELSE IF change_map[i][1] \in lab.subs THEN change_map[i][2]
    ELSE ChangePass(lab, i + 1)

\* canon of a line's label: match_canonical, then the change_map loop
ResolveCanon(lab) ==
    IF match_canonical(lab) # "" THEN match_canonical(lab) ELSE ChangePass(lab, 1)

----------------------------------------------------------------------------
(* parse_money.  A NUM_RE token: wrapped in parentheses or not, with a     *)
(* minus sign or not, and its digits read as an amount.                    *)

Tok(paren, minus, n) == [paren |-> paren, minus |-> minus, digits |-> n]

parse_money(tok) ==
    LET v == IF tok.minus THEN -tok.digits ELSE tok.digits
    IN IF tok.paren THEN -v ELSE v

----------------------------------------------------------------------------
(* The lines documents are made of.  marker says whether the lower-cased   *)
(* line contains one of COMPANY_MARKERS.                                   *)

NoLabel == [text |-> "", rx |-> {}, best |-> <<"cash", 0>>, subs |-> {}]

Blank == [len |-> 0, marker |-> FALSE, date |-> NoDate, years |-> <<>>,
          label |-> NoLabel, nums |-> <<>>, cur |-> {}]

Line(name) ==
    CASE name = "co9" ->      \* "Acme Inc."
           [Blank EXCEPT !.len = 9, !.marker = TRUE]
      [] name = "co20" ->     \* "Acme Holdings Ltd. (CAD)"
           [Blank EXCEPT !.len = 24, !.marker = TRUE, !.cur = {"CAD"}]
      [] name = "co4" ->      \* "Inc."
           [Blank EXCEPT !.len = 4, !.marker = TRUE]
      [] name = "dateOK" ->   \* "DECEMBER 31, 2023"
           [Blank EXCEPT !.len = 17, !.date = <<2023, 12, 31>>, !.years = <<2023>>,
                         !.label = [text |-> "december", rx |-> {},
                                    best |-> <<"cash", 31>>, subs |-> {}],
                         !.nums = <<Tok(FALSE, FALSE, 31), Tok(FALSE, FALSE, 202),
                                    Tok(FALSE, FALSE, 3)>>]
      [] name = "dateBad" ->  \* "JUNE 31, 2023"
           [Blank EXCEPT !.len = 13, !.date = <<2023, 6, 31>>, !.years = <<2023>>,
                         !.label = [text |-> "june", rx |-> {},
                                    best |-> <<"cash", 25>>, subs |-> {}],
                         !.nums = <<Tok(FALSE, FALSE, 31), Tok(FALSE, FALSE, 202),
                                    Tok(FALSE, FALSE, 3)>>]
      [] name = "dateGlued" -> \* "DECEMBER 312021": a date, and no YEAR_RE token
           [Blank EXCEPT !.len = 15, !.date = <<2021, 12, 31>>,
                         !.label = [text |-> "december", rx |-> {},
                                    best |-> <<"cash", 31>>, subs |-> {}],
                         !.nums = <<Tok(FALSE, FALSE, 312), Tok(FALSE, FALSE, 21)>>]
      [] name = "hdr" ->      \* "2023 2022"
           [Blank EXCEPT !.len = 9, !.years = <<2023, 2022>>,
                         !.nums = <<Tok(FALSE, FALSE, 202), Tok(FALSE, FALSE, 3),
                                    Tok(FALSE, FALSE, 202), Tok(FALSE, FALSE, 2)>>]
      [] name = "hdr22" ->    \* "2022"
           [Blank EXCEPT !.len = 4, !.years = <<2022>>,
                         !.nums = <<Tok(FALSE, FALSE, 202), Tok(FALSE, FALSE, 2)>>]
      [] name = "data1" ->    \* "Cash 100"
           [Blank EXCEPT !.len = 8,
                         !.label = [text |-> "cash", rx |-> {"^cash"},
                                    best |-> <<"cash", 100>>, subs |-> {}],
                         !.nums = <<Tok(FALSE, FALSE, 100)>>]
      [] name = "data3" ->    \* "Cash (note 5) (300) 150"
           [Blank EXCEPT !.len = 23,
                         !.label = [text |-> "cash (note", rx |-> {"^cash"},
                                    best |-> <<"cash", 57>>, subs |-> {}],
                         !.nums = <<Tok(FALSE, FALSE, 5), Tok(TRUE, FALSE, 300),
                                    Tok(FALSE, FALSE, 150)>>]
      [] name = "data2" ->    \* "Loans payable 200 180"
           [Blank EXCEPT !.len = 21,
                         !.label = [text |-> "loans payable", rx |-> {},
                                    best |-> <<"loan payable", 96>>, subs |-> {}],
                         !.nums = <<Tok(FALSE, FALSE, 200), Tok(FALSE, FALSE, 180)>>]
      [] OTHER -> Blank

LineNames == {"co9", "co20", "co4", "dateOK", "dateBad", "dateGlued", "hdr", "hdr22",
              "data1", "data3", "data2"}
PageBreak == "\f"

\* pdf.pages: the lines of each page of the document in the file
RECURSIVE SplitPages(_)
SplitPages(d) ==
    IF d = <<>> THEN << <<>> >>
    ELSE LET rest == SplitPages(Tail(d))
         IN IF Head(d) = PageBreak THEN << <<>> >> \o rest
            ELSE << <<Head(d)>> \o rest[1] >> \o Tail(rest)

----------------------------------------------------------------------------
(* extract_company_and_period and detect_currency *)

IsLeap(y) == (y % 4 = 0 /\ y % 100 # 0) \/ y % 400 = 0

DaysInMonth(y, m) ==
    IF m = 2 THEN (IF IsLeap(y) THEN 29 ELSE 28)
    ELSE IF m \in {4, 6, 9, 11} THEN 30 ELSE 31

\* whether datetime.date(year, month, day) returns rather than raises ValueError
ValidDate(d) == d[3] >= 1 /\ d[3] <= DaysInMonth(d[1], d[2])

LenOf(c) == Line(c).len

\* the for loop over text.splitlines(): the longest marker line longer than 5
RECURSIVE CompanyOf(_, _, _)
CompanyOf(page, i, c) ==
    IF i > Len(page) THEN c
    ELSE LET L == page[i]
         IN IF Line(L).marker /\ LenOf(L) > 5 /\ (c = NoCompany \/ LenOf(L) > LenOf(c))
            THEN CompanyOf(page, i + 1, L)
            ELSE CompanyOf(page, i + 1, c)

\* DATE_LONG_RE.search(text): the first match of the page, or NoDate
RECURSIVE FirstDate(_, _)
FirstDate(page, i) ==
    IF i > Len(page) THEN NoDate
    ELSE IF Line(page[i]).date # NoDate THEN Line(page[i]).date
    ELSE FirstDate(page, i + 1)

extract_company_and_period(page) ==
    LET m == FirstDate(page, 1)
    IN [company |-> CompanyOf(page, 1, NoCompany),
        period |-> m,
        raised |-> m # NoDate /\ ~ValidDate(m)]

RECURSIVE ExtractLoop_all_pages(_, _, _, _)
ExtractLoop_all_pages(pages, i, c0, p0) ==
    IF i > Len(pages) THEN [company |-> c0, period |-> p0, raised |-> FALSE]
    ELSE LET e == extract_company_and_period(pages[i])
             c1 == IF e.company # NoCompany /\ (c0 = NoCompany \/ LenOf(e.company) > LenOf(c0))
                   THEN e.company ELSE c0
             p1 == IF e.period # NoDate /\ p0 = NoDate THEN e.period ELSE p0
         IN IF e.raised THEN [company |-> c0, period |-> p0, raised |-> TRUE]
            ELSE ExtractLoop_all_pages(pages, i + 1, c1, p1)

\* the loop over pdf.pages of parse_pdf_to_year_buckets, from page i on
RECURSIVE ExtractLoop(_, _, _, _)
ExtractLoop(pages, i, c0, p0) ==
    IF i > Len(pages) THEN [company |-> c0, period |-> p0, raised |-> FALSE]
    ELSE IF c0 = NoCompany \/ p0 = NoDate
    THEN LET e == extract_company_and_period(pages[i])
             c1 == IF e.company # NoCompany /\ (c0 = NoCompany \/ LenOf(e.company) > LenOf(c0))
                   THEN e.company ELSE c0
             p1 == IF e.period # NoDate /\ p0 = NoDate THEN e.period ELSE p0
         IN IF e.raised THEN [company |-> c0, period |-> p0, raised |-> TRUE]
            ELSE ExtractLoop(pages, i + 1, c1, p1)
    ELSE ExtractLoop(pages, i + 1, c0, p0)

CurrencyCodes == <<"USD", "CAD", "EUR", "GBP", "AUD", "NZD", "JPY", "CHF", "SEK",
                   "NOK", "DKK", "HKD", "SGD", "INR">>

\* "\n".join(pages_text): the lines of all pages in order (a page boundary
\* is a line boundary, so no token of a page is lost or made by the join)
RECURSIVE Join(_)
Join(pages) == IF pages = <<>> THEN <<>> ELSE Head(pages) \o Join(Tail(pages))

ContainsMark(text, mark) == \E i \in DOMAIN text : mark \in Line(text[i]).cur

RECURSIVE FirstCode(_, _)
FirstCode(text, i) ==
    IF i > Len(CurrencyCodes) THEN ""
    ELSE IF ContainsMark(text, CurrencyCodes[i]) THEN CurrencyCodes[i]
    ELSE FirstCode(text, i + 1)

detect_currency(full_text) ==
    IF FirstCode(full_text, 1) # "" THEN FirstCode(full_text, 1)
    ELSE IF ContainsMark(full_text, "GBP_SIGN") THEN "GBP"
    ELSE IF ContainsMark(full_text, "EUR_SIGN") THEN "EUR"
    ELSE "AUTO"

\* {int(y) for y in YEAR_RE.findall(text)}
YearTokens(text) == UNION {Range(Line(text[i]).years) : i \in DOMAIN text}

\* lines 122-124: the sorted year set, or the fallback year
ResolvedYears(pages, per, now) ==
    LET found == YearTokens(Join(pages))
    IN IF found # {} THEN Sorted(found)
       ELSE <<IF per # NoDate THEN per[1] ELSE now>>

----------------------------------------------------------------------------
(* The body of the line loop of parse_pdf_to_year_buckets *)

\* values = [parse_money(x) for x in nums if re.search(r"\d", x)]: every
\* NUM_RE token holds a digit
Values(ln) == [i \in 1..Len(ln.nums) |-> parse_money(ln.nums[i])]

\* whether the line gets past every continue of the loop
Matched(ln) ==
    /\ ln.len > 0
    /\ ln.nums # <<>>
    /\ ln.label.text # ""
    /\ ResolveCanon(ln.label) # ""
    /\ Values(ln) # <<>>

LineWrites_swapped(ln, ctx, yrs) ==
    LET v == Values(ln)
        n == Len(v)
        k == ResolveCanon(ln.label)
    IN IF n >= 2 /\ Len(yrs) >= 2
       THEN << <<Max(Range(yrs)), k, v[n]>>, <<Min(Range(yrs)), k, v[n - 1]>> >>
       ELSE << <<ctx, k, v[n]>> >>

\* lines 168-173: the (year, key, value) assignments of a matched line, in order
LineWrites(ln, ctx, yrs) ==
    LET v == Values(ln)
        n == Len(v)
        k == ResolveCanon(ln.label)
    IN IF n >= 2 /\ Len(yrs) >= 2
       THEN << <<Max(Range(yrs)), k, v[n - 1]>>, <<Min(Range(yrs)), k, v[n]>> >>
       ELSE << <<ctx, k, v[n]>> >>

Assign_summing(rw, w) ==
    [rw EXCEPT ![w[1]] = Put(@, w[2], IF w[2] \in DOMAIN @ THEN @[w[2]] + w[3] ELSE w[3])]

\* raw[year][canon] = value
Assign(rw, w) == [rw EXCEPT ![w[1]] = Put(@, w[2], w[3])]

RECURSIVE AssignAll(_, _)
AssignAll(rw, ws) == IF ws = <<>> THEN rw ELSE AssignAll(Assign(rw, Head(ws)), Tail(ws))

PageYears_min(page) == IF YearTokens(page) = {} THEN 0 ELSE Min(YearTokens(page))

\* lines 130-132: max(page_years), or 0 when the page holds no year token
PageYears(page) == IF YearTokens(page) = {} THEN 0 ELSE Max(YearTokens(page))

----------------------------------------------------------------------------
(* rollup_payload and diagnostics.  round(x, 2) of an amount in            *)
(* thousandths: the nearest hundredth; a decimal half has no exact binary  *)
(* float, so the side it falls on is an input (tie_up).                    *)

Round2(x) ==
    LET lo == (x \div 10) * 10
        rem == x % 10
    IN IF rem < 5 THEN lo
       ELSE IF rem > 5 THEN lo + 10
       ELSE IF tie_up THEN lo + 10 ELSE lo

g(r, k) == IF k \in DOMAIN r THEN r[k] ELSE 0

RECURSIVE sum_keys(_, _)
sum_keys(r, keys) ==
    IF keys = <<>> THEN 0 ELSE g(r, Head(keys)) + sum_keys(r, Tail(keys))

Components(r, keys) == [k \in Range(keys) |-> g(r, k)]

TotalAssets_no_singletons(r) == sum_keys(r, ROLLUPS.current_assets)

\* line 221
TotalAssets(r) == sum_keys(r, ROLLUPS.current_assets) + sum_keys(r, ROLLUPS.singletons)

\* line 233
TotalLiabEquity(r) ==
    sum_keys(r, ROLLUPS.current_liabilities) + g(r, ROLLUPS.loan_payable)
        + sum_keys(r, ROLLUPS.shareholders_equity)

CheckNames == <<"balance_sheet_identity", "retained_earnings_recon", "cash_bridge",
                "ibt_vs_rev_minus_exp">>

Checks(p) ==
    LET bs == p.balance_sheet
        is_ == p.income_statement
        cf == p.cash_flows
        A == bs.assets.total_assets
        LQ == bs.liabilities_and_equity.current_liabilities.total
        LP == bs.liabilities_and_equity.loan_payable
        EQ == bs.liabilities_and_equity.shareholders_equity.total
        rf == is_.retained_earnings_rollforward
    IN [c \in Range(CheckNames) |->
          CASE c = "balance_sheet_identity" -> Round2(A - (LQ + LP + EQ))
            [] c = "retained_earnings_recon" ->
                 Round2((rf.beginning + is_.net_income + rf.dividends) - rf.end)
            [] c = "cash_bridge" ->
                 Round2((cf.cash_beginning + cf.increase_in_cash) - cf.cash_end)
            [] c = "ibt_vs_rev_minus_exp" ->
                 Round2((is_.revenue - is_.expenses.total) - is_.income_before_income_taxes)]

\* the loop of lines 206-208 from check i on: (name, "mismatch", value) per warning
RECURSIVE Warnings(_, _)
Warnings(checks, i) ==
    IF i > Len(CheckNames) THEN <<>>
    ELSE LET k == CheckNames[i]
         IN (IF Abs(checks[k]) > 1000 THEN << <<k, "mismatch", checks[k]>> >> ELSE <<>>)
                \o Warnings(checks, i + 1)

RECURSIVE Warnings_at_tolerance(_, _)
Warnings_at_tolerance(checks, i) ==
    IF i > Len(CheckNames) THEN <<>>
    ELSE LET k == CheckNames[i]
         IN (IF Abs(checks[k]) >= 1000 THEN << <<k, "mismatch", checks[k]>> >> ELSE <<>>)
                \o Warnings_at_tolerance(checks, i + 1)

diagnostics_at_tolerance(p) ==
    [checks |-> Checks(p), warnings |-> Warnings_at_tolerance(Checks(p), 1)]

diagnostics(p) == [checks |-> Checks(p), warnings |-> Warnings(Checks(p), 1)]

OperatingKeys == <<"net_income", "amortization_of_tangible_assets",
                   "amortization_of_intangible_assets", "change_accounts_receivable",
                   "change_investment_tax_credits_receivable", "change_inventories",
                   "change_prepaid_expenses",
                   "change_accounts_payable_and_accrued_liabilities",
                   "change_government_remittances_payable", "change_deferred_revenue">>

FinancingKeys == <<"repayment_of_shareholder_loan", "dividends_paid",
                   "repayment_of_loan_payable", "redemption_of_capital_stock">>

\* the payload of lines 239-308, before _diagnostics is set
PayloadBody(co, per, currency, year, r) ==
    [company |-> co,
     fiscal_year |-> year,
     period_end |-> per,
     currency |-> currency,
     balance_sheet |->
       [assets |->
          [current_assets |->
             [components |-> Components(r, ROLLUPS.current_assets),
              total |-> Round2(sum_keys(r, ROLLUPS.current_assets))],
           investment_in_xyz_ltd |-> g(r, "investment_in_xyz_ltd"),
           equipment_and_software |-> g(r, "equipment_and_software"),
           intangible_assets |-> g(r, "intangible_assets"),
           total_assets |-> Round2(TotalAssets(r))],
        liabilities_and_equity |->
          [current_liabilities |->
             [components |-> Components(r, ROLLUPS.current_liabilities),
              total |-> Round2(sum_keys(r, ROLLUPS.current_liabilities))],
           loan_payable |-> Round2(g(r, ROLLUPS.loan_payable)),
           shareholders_equity |->
             [components |-> Components(r, ROLLUPS.shareholders_equity),
              total |-> Round2(sum_keys(r, ROLLUPS.shareholders_equity))],
           total_liabilities_and_equity |-> Round2(TotalLiabEquity(r))]],
     income_statement |->
       [revenue |-> g(r, "revenue"),
        expenses |->
          [components |-> Components(r, ROLLUPS.expenses),
           total |-> Round2(sum_keys(r, ROLLUPS.expenses))],
        income_before_income_taxes |-> g(r, "income_before_income_taxes"),
        income_taxes |-> g(r, "income_taxes"),
        net_income |-> g(r, "net_income"),
        retained_earnings_rollforward |->
          [beginning |-> g(r, "retained_earnings_beginning"),
           dividends |-> g(r, "dividends"),
           end |-> g(r, "retained_earnings_end_of_year")]],
     cash_flows |->
       [operating_activities |->
          [components |-> Components(r, OperatingKeys),
           total |-> Round2(sum_keys(r, OperatingKeys))],
        investing_activities |->
          [components |-> Components(r, <<"purchase_of_property_and_equipment">>),
           total |-> Round2(g(r, "purchase_of_property_and_equipment"))],
        financing_activities |->
          [components |-> Components(r, FinancingKeys),
           total |-> Round2(sum_keys(r, FinancingKeys))],
        increase_in_cash |-> g(r, "increase_in_cash"),
        cash_beginning |-> g(r, "cash_beginning"),
        cash_end |-> g(r, "cash_end")]]

rollup_payload(co, per, currency, year, r) ==
    LET body == PayloadBody(co, per, currency, year, r)
    IN [body |-> body, diag |-> diagnostics(body)]

----------------------------------------------------------------------------
(* The statement store: the financial_statements table, unique on          *)
(* (company, fiscal_year).                                                 *)

Conflicts(tbl, p) ==
    {row \in tbl : row.company = p.body.company /\ row.fiscal_year = p.body.fiscal_year}

Upsert_no_conflict_clause(tbl, id, p, src) ==
    tbl \cup {[id |-> id, company |-> p.body.company, fiscal_year |-> p.body.fiscal_year,
               period_end |-> p.body.period_end, currency |-> p.body.currency,
               source_filename |-> src, payload |-> p]}

\* INSERT ... ON CONFLICT (company, fiscal_year) DO UPDATE SET ...
Upsert(tbl, id, p, src) ==
    IF Conflicts(tbl, p) = {}
    THEN tbl \cup {[id |-> id, company |-> p.body.company, fiscal_year |-> p.body.fiscal_year,
                    period_end |-> p.body.period_end, currency |-> p.body.currency,
                    source_filename |-> src, payload |-> p]}
    ELSE {IF row \in Conflicts(tbl, p)
          THEN [row EXCEPT !.period_end = p.body.period_end, !.currency = p.body.currency,
                           !.source_filename = src, !.payload = p]
          ELSE row : row \in tbl}

\* RETURNING id, company, fiscal_year, period_end, payload
Returned(tbl, p) ==
    LET row == CHOOSE x \in Conflicts(tbl, p) : TRUE
    IN [id |-> row.id, company |-> row.company, fiscal_year |-> row.fiscal_year,
        period_end |-> row.period_end, payload |-> row.payload]

\* the loop of lines 325-350 over sorted(buckets.items()), from the i-th year on
RECURSIVE PersistLoop(_, _, _, _, _, _, _, _, _)
PersistLoop(tbl, id, out, ys, i, co, per, cur, src) ==
    IF i > Len(ys) THEN [store |-> tbl, next_id |-> id, rows |-> out]
    ELSE LET p == rollup_payload(co, per, cur, ys[i], raw[ys[i]])
             t == Upsert(tbl, id, p, src)
         IN PersistLoop(t, id + 1, Append(out, Returned(t, p)), ys, i + 1, co, per, cur, src)

----------------------------------------------------------------------------
(* upload_statement and parse_pdf_to_year_buckets, step by step *)

EmptyMap == [k \in {} |-> 0]
NoResult == [status |-> "", rows |-> <<>>]
NoPrev == [n |-> 0, doc |-> <<>>, filename |-> "", years |-> <<>>, before |-> {},
           pdoc |-> <<>>, pfilename |-> "", pyears |-> <<>>]

Filenames == {"fs.pdf", "fs.txt"}
IsPdf(f) == f = "fs.pdf"

\* the documents uploaded to the store
UploadDocs == {
    <<"co9", "dateOK", "hdr", "data3">>,
    <<"co9", "hdr22", "data1">>,
    <<"data1">>,
    <<"dateBad">> }

\* the documents drawn for one parse
Docs == SeqsUpTo(LineNames \cup {PageBreak}, MaxItems)

ParseLocals ==
    /\ tmp_file = <<>>
    /\ pages_text = <<>>
    /\ company = NoCompany
    /\ period = NoDate
    /\ doc_currency = ""
    /\ years = <<>>
    /\ raw = EmptyMap
    /\ current_year_context = 0
    /\ pi = 0
    /\ li = 0
    /\ writes = <<>>

StoreIdle ==
    /\ store = {}
    /\ next_id = 1
    /\ results = NoResult
    /\ uploads = 0
    /\ prev = NoPrev

ConcIdle ==
    /\ cdoc = <<>>
    /\ cpc = <<>>
    /\ cpages = <<>>
    /\ cnum = <<>>

FunIdle ==
    /\ label = NoLabel
    /\ canon_out = ""
    /\ r_in = EmptyMap
    /\ payload_out = <<>>

\* lines 314-315: a file that is not a PDF is refused
UploadRefused(d, f) ==
    /\ pc = "idle"
    /\ uploads < MaxUploads
    /\ ~IsPdf(f)
    /\ uploads' = uploads + 1
    /\ results' = [status |-> "400", rows |-> <<>>]
    /\ UNCHANGED <<pipeVars, store, next_id, prev, concVars, funVars, tie_up>>

\* lines 313-316: the handler starts on the bytes of the file
Upload(d, f) ==
    /\ pc = "idle"
    /\ uploads < MaxUploads
    /\ IsPdf(f)
    /\ uploads' = uploads + 1
    /\ doc' = d
    /\ filename' = f
    /\ pc' = "write"
    /\ pages_text' = <<>>
    /\ company' = NoCompany
    /\ period' = NoDate
    /\ doc_currency' = ""
    /\ years' = <<>>
    /\ raw' = EmptyMap
    /\ current_year_context' = 0
    /\ pi' = 0
    /\ li' = 0
    /\ writes' = <<>>
    /\ results' = NoResult
    /\ UNCHANGED <<today, tmp_file, store, next_id, prev, concVars, funVars, tie_up>>

\* lines 101-104: the bytes go to the one temporary file
WriteTmp ==
    /\ pc = "write"
    /\ tmp_file' = doc
    /\ pc' = "extract"
    /\ UNCHANGED <<doc, filename, today, pages_text, company, period, doc_currency, years,
                   raw, current_year_context, pi, li, writes>>
    /\ UNCHANGED <<storeVars, concVars, funVars, tie_up>>

\* lines 106-117: the pages are read from the file, company and period found
Extract ==
    /\ pc = "extract"
    /\ LET pages == SplitPages(tmp_file)
           e == ExtractLoop(pages, 1, NoCompany, NoDate)
       IN IF e.raised
          THEN /\ pc' = "error"
               /\ UNCHANGED <<pages_text, company, period>>
          ELSE /\ pc' = "years"
               /\ pages_text' = pages
               /\ company' = e.company
               /\ period' = e.period
    /\ UNCHANGED <<doc, filename, today, tmp_file, doc_currency, years, raw,
                   current_year_context, pi, li, writes>>
    /\ UNCHANGED <<storeVars, concVars, funVars, tie_up>>

\* lines 119-127: currency, the year set, the empty buckets, the first context
ResolveYears ==
    /\ pc = "years"
    /\ doc_currency' = detect_currency(Join(pages_text))
    /\ years' = ResolvedYears(pages_text, period, today)
    /\ raw' = [y \in Range(years') |-> EmptyMap]
    /\ current_year_context' = Max(Range(years'))
    /\ pi' = 0
    /\ li' = 0
    /\ pc' = "scan"
    /\ UNCHANGED <<doc, filename, today, tmp_file, pages_text, company, period, writes>>
    /\ UNCHANGED <<storeVars, concVars, funVars, tie_up>>

PageDone == IF pi = 0 THEN TRUE ELSE li > Len(pages_text[pi])

\* lines 129-132: the next page starts and may move the year context
NextPage ==
    /\ pc = "scan"
    /\ PageDone
    /\ pi < Len(pages_text)
    /\ pi' = pi + 1
    /\ li' = 1
    /\ current_year_context' =
          IF PageYears(pages_text[pi + 1]) # 0 THEN PageYears(pages_text[pi + 1])
          ELSE current_year_context
    /\ UNCHANGED <<doc, filename, today, pc, tmp_file, pages_text, company, period,
                   doc_currency, years, raw, writes>>
    /\ UNCHANGED <<storeVars, concVars, funVars, tie_up>>

\* lines 134-173: one line of the page
ProcessLine ==
    /\ pc = "scan"
    /\ pi >= 1
    /\ li <= Len(pages_text[pi])
    /\ LET ln == Line(pages_text[pi][li])
           ws == LineWrites(ln, current_year_context, years)
       IN IF ~Matched(ln)
          THEN /\ li' = li + 1
               /\ UNCHANGED <<pc, raw, writes>>
          ELSE IF \E i \in DOMAIN ws : ws[i][1] \notin DOMAIN raw
          THEN /\ pc' = "error"      \* KeyError
               /\ UNCHANGED <<li, raw, writes>>
          ELSE /\ raw' = AssignAll(raw, ws)
               /\ writes' = writes \o ws
               /\ li' = li + 1
               /\ UNCHANGED pc
    /\ UNCHANGED <<doc, filename, today, tmp_file, pages_text, company, period,
                   doc_currency, years, current_year_context, pi>>
    /\ UNCHANGED <<storeVars, concVars, funVars, tie_up>>

\* line 175: the four results, the company defaulted
Return ==
    /\ pc = "scan"
    /\ PageDone
    /\ pi = Len(pages_text)
    /\ company' = IF company = NoCompany THEN "UNKNOWN" ELSE company
    /\ pc' = "parsed"
    /\ UNCHANGED <<doc, filename, today, tmp_file, pages_text, period, doc_currency, years,
                   raw, current_year_context, pi, li, writes>>
    /\ UNCHANGED <<storeVars, concVars, funVars, tie_up>>

\* lines 323-351: one transaction upserts a row per year and returns them
Persist ==
    /\ pc = "parsed"
    /\ LET out == PersistLoop(store, next_id, <<>>, Sorted(DOMAIN raw), 1,
                              company, period, doc_currency, filename)
       IN /\ store' = out.store
          /\ next_id' = out.next_id
          /\ results' = [status |-> "200", rows |-> out.rows]
    /\ prev' = [n |-> prev.n + 1, doc |-> doc, filename |-> filename, years |-> years,
                before |-> store, pdoc |-> prev.doc, pfilename |-> prev.filename,
                pyears |-> prev.years]
    /\ pc' = "idle"
    /\ UNCHANGED <<doc, filename, today, tmp_file, pages_text, company, period,
                   doc_currency, years, raw, current_year_context, pi, li, writes>>
    /\ UNCHANGED <<uploads, concVars, funVars, tie_up>>

\* lines 320-321: an exception of the parse becomes HTTP 500
Reject ==
    /\ pc = "error"
    /\ results' = [status |-> "500", rows |-> <<>>]
    /\ pc' = "idle"
    /\ UNCHANGED <<doc, filename, today, tmp_file, pages_text, company, period,
                   doc_currency, years, raw, current_year_context, pi, li, writes>>
    /\ UNCHANGED <<store, next_id, uploads, prev, concVars, funVars, tie_up>>

\* the calendar year read by datetime.date.today() moves on
Tick ==
    /\ today < 2026 + MaxTicks
    /\ today' = today + 1
    /\ UNCHANGED <<doc, filename, pc, tmp_file, pages_text, company, period,
                   doc_currency, years, raw, current_year_context, pi, li, writes>>
    /\ UNCHANGED <<storeVars, concVars, funVars, tie_up>>

Init ==
    /\ doc = <<>>
    /\ filename = ""
    /\ today = 2026
    /\ pc = "idle"
    /\ ParseLocals
    /\ StoreIdle
    /\ ConcIdle
    /\ FunIdle
    /\ tie_up \in BOOLEAN

Next ==
    \/ \E d \in UploadDocs, f \in Filenames : UploadRefused(d, f)
    \/ \E d \in UploadDocs, f \in Filenames : Upload(d, f)
    \/ WriteTmp
    \/ Extract
    \/ ResolveYears
    \/ NextPage
    \/ ProcessLine
    \/ Return
    \/ Persist
    \/ Reject
    \/ Tick

Spec == Init /\ [][Next]_vars

\* one call of parse_pdf_to_year_buckets on any document within the bound
InitParse ==
    /\ doc \in Docs
    /\ filename = "fs.pdf"
    /\ today = 2026
    /\ pc = "write"
    /\ ParseLocals
    /\ StoreIdle
    /\ ConcIdle
    /\ FunIdle
    /\ tie_up = FALSE

NextParse ==
    \/ WriteTmp
    \/ Extract
    \/ ResolveYears
    \/ NextPage
    \/ ProcessLine
    \/ Return

SpecParse == InitParse /\ [][NextParse]_vars

----------------------------------------------------------------------------
(* Claims about parse_pdf_to_year_buckets, checked under SpecParse *)

\* the line the loop has just been through, and what it resolved to
AfterLine == pc = "scan" /\ pi >= 1 /\ li >= 2
DoneLine == Line(pages_text[pi][li - 1])
DoneKey == ResolveCanon(DoneLine.label)
DoneValues == Values(DoneLine)
MaxYear == Max(Range(years))
MinYear == Min(Range(years))

\* a matched line with two or more values in a document of two or more years
SplitCase ==
    /\ AfterLine
    /\ Matched(DoneLine)
    /\ Len(DoneValues) >= 2
    /\ Len(years) >= 2

\* a matched line that the two-column split does not handle
SingleCase ==
    /\ AfterLine
    /\ Matched(DoneLine)
    /\ ~(Len(DoneValues) >= 2 /\ Len(years) >= 2)

\* C1 as stated: after a matched line with two or more values in a document
\* of two or more years, bucket (max(years), key) holds the line's FIRST
\* value and bucket (min(years), key) its SECOND.
C1_FirstTwoWritten ==
    SplitCase =>
        /\ DoneKey \in DOMAIN raw[MaxYear] /\ raw[MaxYear][DoneKey] = DoneValues[1]
        /\ DoneKey \in DOMAIN raw[MinYear] /\ raw[MinYear][DoneKey] = DoneValues[2]

\* C1 amended: after such a line, bucket (max(years), key) holds the line's
\* second-to-last value and bucket (min(years), key) its last value (the
\* first and second only when the line has exactly two values).
C1_LastTwoWritten ==
    SplitCase =>
        /\ DoneKey \in DOMAIN raw[MaxYear]
        /\ raw[MaxYear][DoneKey] = DoneValues[Len(DoneValues) - 1]
        /\ DoneKey \in DOMAIN raw[MinYear]
        /\ raw[MinYear][DoneKey] = DoneValues[Len(DoneValues)]

\* a three-value line has been split and its first value is in no bucket
C1_Witness ==
    /\ SplitCase
    /\ Len(DoneValues) = 3
    /\ raw[MaxYear][DoneKey] = DoneValues[2]
    /\ raw[MinYear][DoneKey] = DoneValues[3]
    /\ DoneValues[1] \notin {DoneValues[2], DoneValues[3]}

\* the candidate company lines of a set of pages: a marker, longer than 5
LinesOf(ps) == UNION {Range(pages_text[p]) : p \in ps}
Candidates(ps) == {L \in LinesOf(ps) : Line(L).marker /\ LenOf(L) > 5}
HasDate(ps) == \E L \in LinesOf(ps) : Line(L).date # NoDate
AllPages == 1..Len(pages_text)

\* the pages the detection looks at: those before which the company or the
\* period is still missing
Examined == {p \in AllPages : Candidates(1..(p - 1)) = {} \/ ~HasDate(1..(p - 1))}

LongestOf(cands) ==
    IF cands = {} THEN company = "UNKNOWN"
    ELSE company \in cands /\ \A c \in cands : LenOf(c) <= LenOf(company)

\* C3 as stated: the company returned is the longest candidate line over all
\* lines of all pages, and "UNKNOWN" only when no page holds a candidate.
C3_LongestOfAllPages == pc = "parsed" => LongestOf(Candidates(AllPages))

\* C3 amended: the company returned is the longest candidate line over the
\* pages examined, that is the pages up to and including the first one by
\* which both a company and a period have been found; "UNKNOWN" only when
\* these pages hold no candidate.
C3_LongestOfExaminedPages == pc = "parsed" => LongestOf(Candidates(Examined))

\* a longer candidate stands on a page that was never examined
C3_Witness ==
    /\ pc = "parsed"
    /\ company # "UNKNOWN"
    /\ \E c \in Candidates(AllPages \ Examined) : LenOf(c) > LenOf(company)

\* C4: field detection never ends in an error, whatever the day of a
\* MONTH DAY, YEAR match.
C4_DetectionNeverRaises == pc # "error"

\* the year context the claim gives the lines of page p
ContextAt(p) ==
    LET dated == {q \in 1..p : YearTokens(pages_text[q]) # {}}
    IN IF dated = {} THEN MaxYear ELSE Max(YearTokens(pages_text[Max(dated)]))

\* C5: on page p the year context is the largest year token of the latest
\* page up to p that holds one, else max(years); it is a resolved year with a
\* bucket; a matched line outside the two-column split leaves its last value
\* in the context's bucket.
C5_ContextBucket ==
    /\ (pc = "scan" /\ pi >= 1) =>
           /\ current_year_context = ContextAt(pi)
           /\ current_year_context \in Range(years)
           /\ current_year_context \in DOMAIN raw
    /\ SingleCase =>
           /\ DoneKey \in DOMAIN raw[current_year_context]
           /\ raw[current_year_context][DoneKey] = Last(DoneValues)

\* a single-value line of the second page written under the context of that
\* page's year token, which is not max(years)
C5_Witness ==
    /\ SingleCase
    /\ pi >= 2
    /\ current_year_context # MaxYear
    /\ raw[current_year_context][DoneKey] = Last(DoneValues)

WritesTo(y, k) == {i \in DOMAIN writes : writes[i][1] = y /\ writes[i][2] = k}
WrittenKeys == {writes[i][2] : i \in DOMAIN writes}

\* C6: at the end every (year, key) of the buckets holds the value of the
\* last line, in document order, that resolved to it, and a pair no line
\* wrote to is absent.
C6_LastWriteWins ==
    pc = "parsed" =>
        \A y \in DOMAIN raw :
            /\ DOMAIN raw[y] = {k \in WrittenKeys : WritesTo(y, k) # {}}
            /\ \A k \in DOMAIN raw[y] : raw[y][k] = writes[Max(WritesTo(y, k))][3]

\* two lines wrote different values to one pair; the later one is stored
C6_Witness ==
    /\ pc = "parsed"
    /\ \E y \in DOMAIN raw : \E k \in DOMAIN raw[y] :
          /\ Cardinality(WritesTo(y, k)) >= 2
          /\ writes[Min(WritesTo(y, k))][3] # writes[Max(WritesTo(y, k))][3]
          /\ raw[y][k] = writes[Max(WritesTo(y, k))][3]

----------------------------------------------------------------------------
(* Claims about upload_statement and the store, checked under Spec *)

JustPersisted == pc = "idle" /\ results.status = "200"

OneRowPerPair ==
    \A a, b \in store :
        (a.company = b.company /\ a.fiscal_year = b.fiscal_year) => a = b

\* the rows of this upload's pairs carry this upload's fields; the others
\* are the rows the store held before
RowsOfLastUpload ==
    /\ \A y \in Range(years) :
          \E row \in store :
              /\ row.company = company
              /\ row.fiscal_year = y
              /\ row.period_end = period
              /\ row.currency = doc_currency
              /\ row.payload = rollup_payload(company, period, doc_currency, y, raw[y])
    /\ \A row \in store :
          (row.company # company \/ row.fiscal_year \notin Range(years)) => row \in prev.before
    /\ \A row \in prev.before :
          (row.company # company \/ row.fiscal_year \notin Range(years)) => row \in store

\* one result per year of the document's year set, in ascending order
OneResultPerYear ==
    /\ Len(results.rows) = Len(years)
    /\ \A i \in DOMAIN years :
          /\ results.rows[i].company = company
          /\ results.rows[i].fiscal_year = years[i]

\* the upload that just ended repeats the one before it
SameDocAgain == prev.n >= 2 /\ prev.pdoc = doc /\ prev.pfilename = filename

\* C7 as stated: one row per (company, fiscal_year), holding the fields of
\* the most recent upload of the pair; one result per year of the document;
\* uploading a document a second time leaves the rows of the first upload.
C7_UpsertIdempotent ==
    /\ OneRowPerPair
    /\ JustPersisted =>
          /\ RowsOfLastUpload
          /\ OneResultPerYear
          /\ SameDocAgain => store = prev.before

\* C7 amended: as stated, except that a second upload of a document leaves
\* the rows of the first when both uploads resolve the same year set; a
\* document with no year token and no period date takes the calendar year
\* of the upload, which may differ between the two.
C7_UpsertIdempotentSameYears ==
    /\ OneRowPerPair
    /\ JustPersisted =>
          /\ RowsOfLastUpload
          /\ OneResultPerYear
          /\ (SameDocAgain /\ years = prev.pyears) => store = prev.before

\* a two-year document uploaded twice: two results, and the rows unchanged
C7_Witness ==
    /\ JustPersisted
    /\ SameDocAgain
    /\ Len(years) = 2
    /\ Len(results.rows) = 2
    /\ Cardinality(store) = 2
    /\ store = prev.before

----------------------------------------------------------------------------
(* Two invocations of parse_pdf_to_year_buckets at once.  Both write and   *)
(* read the one file tempfile.gettempdir()/_fs_universal.pdf.  tmp_file is *)
(* <<>> for an empty (truncated) file and <<d>> for a file holding d.      *)

Procs == {1, 2}

ConcDocs == {
    <<"co9", "\f", "data1">>,
    <<"co20", "hdr", "data3">>,
    <<"dateOK", "\f", "hdr22", "\f", "data2">> }

\* line 103: open(tmp_file, "wb") empties the file
COpen(p) ==
    /\ cpc[p] = "start"
    /\ tmp_file' = <<>>
    /\ cpc' = [cpc EXCEPT ![p] = "write"]
    /\ UNCHANGED <<doc, filename, today, pc, pages_text, company, period, doc_currency,
                   years, raw, current_year_context, pi, li, writes>>
    /\ UNCHANGED <<storeVars, cdoc, cpages, cnum, funVars, tie_up>>

\* line 104: f.write(pdf_bytes), and the file is closed
CWrite(p) ==
    /\ cpc[p] = "write"
    /\ tmp_file' = <<cdoc[p]>>
    /\ cpc' = [cpc EXCEPT ![p] = "pdf"]
    /\ UNCHANGED <<doc, filename, today, pc, pages_text, company, period, doc_currency,
                   years, raw, current_year_context, pi, li, writes>>
    /\ UNCHANGED <<storeVars, cdoc, cpages, cnum, funVars, tie_up>>

\* lines 108-109: pdfplumber.open(tmp_file) and the page list of what the
\* file holds now; an empty file is no PDF
COpenPdf(p) ==
    /\ cpc[p] = "pdf"
    /\ IF tmp_file = <<>>
       THEN /\ cpc' = [cpc EXCEPT ![p] = "error"]
            /\ UNCHANGED cnum
       ELSE /\ cpc' = [cpc EXCEPT ![p] = "read"]
            /\ cnum' = [cnum EXCEPT ![p] = Len(SplitPages(tmp_file[1]))]
    /\ UNCHANGED <<pipeVars, storeVars, cdoc, cpages, funVars, tie_up>>

\* lines 110-111: the text of the next page, read from what the file holds now
CReadPage(p) ==
    /\ cpc[p] = "read"
    /\ Len(cpages[p]) < cnum[p]
    /\ LET i == Len(cpages[p]) + 1
       IN IF tmp_file = <<>> \/ i > Len(SplitPages(tmp_file[1]))
          THEN /\ cpc' = [cpc EXCEPT ![p] = "error"]
               /\ UNCHANGED cpages
          ELSE /\ cpages' = [cpages EXCEPT ![p] = Append(@, SplitPages(tmp_file[1])[i])]
               /\ UNCHANGED cpc
    /\ UNCHANGED <<pipeVars, storeVars, cdoc, cnum, funVars, tie_up>>

\* the loop over pdf.pages ends; the rest of the call works on pages_text
CDone(p) ==
    /\ cpc[p] = "read"
    /\ Len(cpages[p]) = cnum[p]
    /\ cpc' = [cpc EXCEPT ![p] = "done"]
    /\ UNCHANGED <<pipeVars, storeVars, cdoc, cpages, cnum, funVars, tie_up>>

InitConc ==
    /\ doc = <<>>
    /\ filename = ""
    /\ today = 2026
    /\ pc = "idle"
    /\ ParseLocals
    /\ StoreIdle
    /\ FunIdle
    /\ tie_up = FALSE
    /\ cdoc \in [Procs -> ConcDocs]
    /\ cpc = [p \in Procs |-> "start"]
    /\ cpages = [p \in Procs |-> <<>>]
    /\ cnum = [p \in Procs |-> 0]

NextConc ==
    \E p \in Procs :
        \/ COpen(p)
        \/ CWrite(p)
        \/ COpenPdf(p)
        \/ CReadPage(p)
        \/ CDone(p)

SpecConc == InitConc /\ [][NextConc]_vars

\* C2: under every interleaving, an invocation that gets through its pages
\* has read the page texts of its own document and of no other.
C2_ReadsOwnPages ==
    \A p \in Procs : cpc[p] = "done" => cpages[p] = SplitPages(cdoc[p])

----------------------------------------------------------------------------
(* match_canonical and the change_map fallback on any label *)

AllRegex == UNION {Range(CANON[i].regex) : i \in 1..Len(CANON)}
ChangePhrases == {change_map[i][1] : i \in 1..Len(change_map)}
ChangeKeys == {change_map[i][2] : i \in 1..Len(change_map)}
Scores == {0, 83, 84, 100}

Labels == [text : {"label"}, rx : SUBSET AllRegex,
           best : Range(FUZZY_CHOICES) \X Scores, subs : SUBSET ChangePhrases]

\* lines 146-162 on the drawn label
MatchLabel ==
    /\ canon_out = "?"
    /\ canon_out' = ResolveCanon(label)
    /\ UNCHANGED <<pipeVars, storeVars, concVars, label, r_in, payload_out, tie_up>>

InitMatch ==
    /\ doc = <<>>
    /\ filename = ""
    /\ today = 2026
    /\ pc = "idle"
    /\ ParseLocals
    /\ StoreIdle
    /\ ConcIdle
    /\ label \in Labels
    /\ canon_out = "?"
    /\ r_in = EmptyMap
    /\ payload_out = <<>>
    /\ tie_up = FALSE

NextMatch == MatchLabel

SpecMatch == InitMatch /\ [][NextMatch]_vars

\* the keys with a regex found in the label, by position in the taxonomy
RegexHits == {i \in 1..Len(CANON) : \E rx \in Range(CANON[i].regex) : rx \in label.rx}

\* the key the fuzzy pass yields: the owner of the best choice when its
\* score reaches the threshold and the choice is a synonym
FuzzyKey ==
    IF label.best[2] >= 84
          /\ \E i \in 1..Len(CANON) : label.best[1] \in Range(CANON[i].synonyms)
    THEN CANON[CHOOSE i \in 1..Len(CANON) : label.best[1] \in Range(CANON[i].synonyms)].key
    ELSE ""

\* C8: the first key in taxonomy order with a regex matching the label is
\* returned whatever the fuzzy score; the fuzzy pass counts only when no
\* regex matches; the change_* table only when both passes yield no key.
C8_RegexThenFuzzyThenChange ==
    canon_out # "?" =>
        /\ RegexHits # {} => canon_out = CANON[Min(RegexHits)].key
        /\ (RegexHits = {} /\ FuzzyKey # "") => canon_out = FuzzyKey
        /\ canon_out \in ChangeKeys =>
              /\ RegexHits = {}
              /\ FuzzyKey = ""
              /\ \E i \in 1..Len(change_map) :
                    /\ change_map[i][2] = canon_out
                    /\ change_map[i][1] \in label.subs
        /\ (RegexHits = {} /\ FuzzyKey = "" /\ label.subs = {}) => canon_out = ""

\* a label matching the regex of one key and, with score 100, a synonym of
\* another resolves to the regex's key
C8_Witness ==
    /\ canon_out = "cash"
    /\ label.rx = {"^cash"}
    /\ label.best = <<"loan payable", 100>>
    /\ label.subs # {}

----------------------------------------------------------------------------
(* rollup_payload and diagnostics on any flat map within the bound *)

\* the keys the drawn flat maps hold, and the amounts (in thousandths)
DrawnKeys == {"cash", "equipment_and_software", "accounts_payable_and_accrued_liabilities",
              "loan_payable", "capital_stock", "retained_earnings_end_of_year",
              "retained_earnings_beginning", "revenue",
              "income_before_income_taxes", "cash_beginning", "cash_end"}
Amounts == {4, 5, 8, 1000, 1010}

FlatMaps ==
    UNION {[ks -> Amounts] : ks \in {K \in SUBSET DrawnKeys : Cardinality(K) <= MaxEntries}}

\* rollup_payload(company, period, currency, year, r) on the drawn map
Rollup ==
    /\ payload_out = <<>>
    /\ payload_out' = rollup_payload("Acme Inc.", NoDate, "AUTO", 2023, r_in)
    /\ UNCHANGED <<pipeVars, storeVars, concVars, label, canon_out, r_in, tie_up>>

InitRollup ==
    /\ doc = <<>>
    /\ filename = ""
    /\ today = 2026
    /\ pc = "idle"
    /\ ParseLocals
    /\ StoreIdle
    /\ ConcIdle
    /\ label = NoLabel
    /\ canon_out = ""
    /\ r_in \in FlatMaps
    /\ payload_out = <<>>
    /\ tie_up \in BOOLEAN

NextRollup == Rollup

SpecRollup == InitRollup /\ [][NextRollup]_vars

RolledUp == payload_out # <<>>

\* total assets equal current liabilities + loan payable + equity, exactly
ExactlyBalanced ==
    sum_keys(r_in, ROLLUPS.current_assets \o ROLLUPS.singletons)
        = sum_keys(r_in, ROLLUPS.current_liabilities \o <<ROLLUPS.loan_payable>>
                             \o ROLLUPS.shareholders_equity)

IdentityWarned ==
    \E i \in DOMAIN payload_out.diag.warnings :
        payload_out.diag.warnings[i][1] = "balance_sheet_identity"

TwoDecimals == \A k \in DOMAIN r_in : r_in[k] % 10 = 0

\* C9 as stated: an exactly balanced flat map, values of more than two
\* decimal places included, gets balance_sheet_identity = 0.0 and no warning.
C9_BalancedGivesZero ==
    (RolledUp /\ ExactlyBalanced) =>
        /\ payload_out.diag.checks["balance_sheet_identity"] = 0
        /\ ~IdentityWarned

\* C9 amended: an exactly balanced flat map gets no balance_sheet_identity
\* warning; the check is 0.0 when the values have at most two decimal
\* places, and otherwise the residual of the separately rounded totals,
\* at most 0.02 in magnitude.
C9_BalancedGivesNoWarning ==
    (RolledUp /\ ExactlyBalanced) =>
        /\ ~IdentityWarned
        /\ Abs(payload_out.diag.checks["balance_sheet_identity"]) <= 20
        /\ TwoDecimals => payload_out.diag.checks["balance_sheet_identity"] = 0

\* a balanced map of two-decimal values with a singleton asset: zero, no warning
C9_Witness ==
    /\ RolledUp
    /\ ExactlyBalanced
    /\ TwoDecimals
    /\ g(r_in, "equipment_and_software") > 0
    /\ payload_out.body.balance_sheet.assets.total_assets > 0
    /\ payload_out.diag.checks["balance_sheet_identity"] = 0
    /\ ~IdentityWarned

WarningsOf(c) ==
    {i \in DOMAIN payload_out.diag.warnings : payload_out.diag.warnings[i][1] = c}

\* C10: a check has a warning, one and with its value, exactly when its
\* rounded residual is above 1.0 in magnitude; the four checks are present.
C10_WarningIffAboveTolerance ==
    RolledUp =>
        /\ DOMAIN payload_out.diag.checks = Range(CheckNames)
        /\ \A c \in Range(CheckNames) :
              /\ Cardinality(WarningsOf(c)) =
                    (IF Abs(payload_out.diag.checks[c]) > 1000 THEN 1 ELSE 0)
              /\ \A i \in WarningsOf(c) :
                    payload_out.diag.warnings[i] = <<c, "mismatch", payload_out.diag.checks[c]>>

\* one residual of exactly 1.0 without a warning beside one of 1.01 with its
\* warning
C10_Witness ==
    /\ RolledUp
    /\ payload_out.diag.checks["cash_bridge"] = 1000
    /\ WarningsOf("cash_bridge") = {}
    /\ payload_out.diag.checks["ibt_vs_rev_minus_exp"] = 1010
    /\ Cardinality(WarningsOf("ibt_vs_rev_minus_exp")) = 1

====
